---- MODULE Spec2Model ----
(***************************************************************************)
(* Relay control daemon (mcp-daemon.py) and its locking client             *)
(* (irrigation-controller.py).  The daemon owns the MCP23017 pins, accepts *)
(* one Unix-socket connection at a time, decodes one JSON request,         *)
(* touches the pins through retry(), and answers with one JSON response.   *)
(***************************************************************************)
EXTENDS Integers, Sequences, FiniteSets, TLC

\* ------------------------------------------------------------------------
\* Bounds of the model
\* ------------------------------------------------------------------------

\* how many entries of relay_dict (in dictionary order) the model drives
NumRelays == 2
\* how many local processes (client invocations or raw socket peers) run
NumProcs == 2

\* ------------------------------------------------------------------------
\* Constants of the program
\* ------------------------------------------------------------------------

\* retry(operation, description, attempts=3, delay=0.1)
Attempts == 3
\* server.listen(5)
ListenBacklog == 5

\* Python None: the value of request.get(key) for an absent key or JSON null
None == "<None>"
\* a JSON array or object given as a field value (an unhashable Python value)
Unhashable == "<list>"

relay_dict ==
    << [name |-> "farbed",  index |-> 0, pin |-> 10],
       [name |-> "nearbed", index |-> 1, pin |-> 6],
       [name |-> "mag",     index |-> 2, pin |-> 9],
       [name |-> "plants",  index |-> 3, pin |-> 7],
       [name |-> "valve5",  index |-> 4, pin |-> 8],
       [name |-> "pump1",   index |-> 5, pin |-> 5],
       [name |-> "pump2",   index |-> 6, pin |-> 11] >>

Min(a, b) == IF a < b THEN a ELSE b

\* the entries the model drives, in the iteration order of relay_dict.items()
Registry == SubSeq(relay_dict, 1, Min(NumRelays, Len(relay_dict)))
N == Len(Registry)
RelayNames == {Registry[i].name : i \in 1..N}
\* position of a known relay name in the registry
Pos(name) == CHOOSE i \in 1..N : Registry[i].name = name

Procs == 1..NumProcs
NoProc == 0

\* ------------------------------------------------------------------------
\* Pure functions
\* ------------------------------------------------------------------------

\* (variant: the two words are exchanged)
translate_stateInverted(state) == IF state THEN "off" ELSE "on"

translate_state(state) == IF state THEN "on" ELSE "off"

\* retry(): outcomes[k] says whether the k-th invocation of the operation
\* returns (TRUE) or raises (FALSE); the result tells whether retry returned
\* and how many times it invoked the operation.
RECURSIVE RetryFrom(_, _, _)
RetryFrom(outcomes, attempt, attempts) ==
    IF outcomes[attempt + 1]
    THEN [ok |-> TRUE, calls |-> attempt + 1]
    ELSE IF attempt < attempts - 1
         THEN RetryFrom(outcomes, attempt + 1, attempts)
         ELSE [ok |-> FALSE, calls |-> attempt + 1]

\* (variant: every attempt is made and the last one decides)
retryAll(outcomes, attempts) == [ok |-> outcomes[attempts], calls |-> attempts]

\* (variant: the operation is tried once)
retryOnce(outcomes, attempts) == [ok |-> outcomes[1], calls |-> 1]

retry(outcomes, attempts) ==
    IF attempts <= 0
    THEN [ok |-> TRUE, calls |-> 0]
    ELSE RetryFrom(outcomes, 0, attempts)

\* what each of the (at most Attempts) invocations of one operation may do
Outcomes == [1..Attempts -> BOOLEAN]
NoFault == {[k \in 1..Attempts |-> TRUE]}
\* an operation that returns at every invocation, or raises at every one
Steady == {[k \in 1..Attempts |-> b] : b \in BOOLEAN}

\* a call of retry(operation, description, attempts): what the invocations
\* of `operation` do, and `attempts`
MaxTries == 4
Calls == [outcomes : [1..MaxTries -> BOOLEAN], attempts : 1..MaxTries]
NoCall == [outcomes |-> << >>, attempts |-> 0]
NoRet == [ok |-> FALSE, calls |-> -1]

\* (variant: the port is written with the one bit, the other pins cleared)
WritePinBank(h, name, v) == [x \in DOMAIN h |-> (x = name) /\ v]

\* setattr(pin, 'value', v) on the pin of one relay
WritePin(h, name, v) == [h EXCEPT ![name] = v]

\* ------------------------------------------------------------------------
\* Messages
\* ------------------------------------------------------------------------

\* bytes on the wire, by what json.loads(data.decode("utf-8")) makes of them
\*   "object"  a JSON object; relay/action/username are its fields (None: absent)
\*   "value"   valid JSON that is not an object (array, string, number, null)
\*   "badjson" text that is not JSON;  "badutf8" bytes that are not UTF-8
RelayVals == RelayNames \cup {"all", "valve99", None, Unhashable}
ActionVals == {"on", "off", "status", "toggle", None}
UserVals == {"pi", "mallory", None}
Wire(kind, relay, action, username) ==
    [kind |-> kind, relay |-> relay, action |-> action, username |-> username]
RawPayloads ==
    {Wire("object", r, a, u) : r \in RelayVals, a \in ActionVals, u \in UserVals}
    \cup {Wire(k, None, None, None) : k \in {"value", "badjson", "badutf8"}}

\* the client's command line choices
ClientRelays == RelayNames \cup {"all"}
ClientActions == {"on", "off", "status"}
Command(relay, action) == [relay |-> relay, action |-> action]
NoCmd == Command(None, None)
Commands == {Command(r, a) : r \in ClientRelays, a \in ClientActions}

\* json.dumps(command).encode("utf-8") of the client
Encode(command, username) ==
    Wire("object", command.relay, command.action, username)

\* (variant: the request of one user is refused)
DecodeAuthorized(data) ==
    CASE data.kind = "badutf8" -> [exc |-> "UnicodeDecodeError", relay |-> None, action |-> None]
      [] data.kind = "badjson" -> [exc |-> "JSONDecodeError", relay |-> None, action |-> None]
      [] data.kind = "value"   -> [exc |-> "AttributeError", relay |-> None, action |-> None]
      [] data.username = "mallory" ->
                                  [exc |-> "PermissionError", relay |-> None, action |-> None]
      [] OTHER                 -> [exc |-> None, relay |-> data.relay, action |-> data.action]

\* json.loads(data.decode("utf-8")) followed by request.get("relay") and
\* request.get("action"): the exception raised, or the two values read.
\* No other key of the request is read.
Decode(data) ==
    CASE data.kind = "badutf8" -> [exc |-> "UnicodeDecodeError", relay |-> None, action |-> None]
      [] data.kind = "badjson" -> [exc |-> "JSONDecodeError", relay |-> None, action |-> None]
      [] data.kind = "value"   -> [exc |-> "AttributeError", relay |-> None, action |-> None]
      [] OTHER                 -> [exc |-> None, relay |-> data.relay, action |-> data.action]

\* the request being handled: what kind of bytes were read and, for a JSON
\* object, the relay and the action it names and the username it carries
Request(kind, relay, action, username) ==
    [kind |-> kind, relay |-> relay, action |-> action, username |-> username]
NoReq == Request("none", None, None, None)

\* str(e) of the exception a pin write raised on its last attempt, and of
\* the one a pin read raised
WriteFailed == "write failed"
ReadFailed == "read failed"

\* responses: {"error": msg} | {"relay": r, "status": s} | {name: s, ...}
EmptyMap == [x \in {} |-> "off"]
ErrorResp(msg) == [kind |-> "error", error |-> msg, relay |-> None, status |-> None, map |-> EmptyMap]
StatusResp(r, s) == [kind |-> "status", error |-> None, relay |-> r, status |-> s, map |-> EmptyMap]
MapResp(m) == [kind |-> "mapping", error |-> None, relay |-> None, status |-> None, map |-> m]
NoResp == [kind |-> "nothing", error |-> None, relay |-> None, status |-> None, map |-> EmptyMap]

\* the key set of the JSON object a response is
Keys(resp) ==
    CASE resp.kind = "error"   -> {"error"}
      [] resp.kind = "status"  -> {"relay", "status"}
      [] resp.kind = "mapping" -> DOMAIN resp.map
      [] OTHER                 -> {}

\* a connection: whether the process wrote its bytes, whether it closed its
\* end, the response waiting to be read, whether the daemon closed its end,
\* and (history) how many responses the daemon sent on it
NoChan == [sent |-> FALSE, peerClosed |-> FALSE, resp |-> NoResp,
           srvClosed |-> FALSE, nresp |-> 0]

\* relay definitions: for each name the index and the pin number.  The
\* names are the keys of a dictionary, so they are distinct by construction.
Shipped == [r \in RelayNames |-> [index |-> Registry[Pos(r)].index,
                                   pin |-> Registry[Pos(r)].pin]]
\* the definitions an edited relay_dict may hold for these names
Configs ==
    [RelayNames -> [index : 0..N, pin : {Registry[i].pin : i \in 1..N}]]

\* daemon processes started on one machine
NumDaemons == 3
Daemons == 1..NumDaemons
NoDaemon == 0
\* no process started; nothing at the socket path
NoInst == [pc |-> [d \in Daemons |-> "off"], path |-> NoDaemon]

\* power-control.py: the outputs it drives, the command lines, and the
\* GPIO.output calls each accepted one makes, in the order of the script
Valves == {"valve1", "valve2", "valve3"}
Outputs == {"VALVE1", "VALVELED1", "VALVE2", "VALVELED2", "VALVE3", "VALVELED3"}
Args(valve, action) == [valve |-> valve, action |-> action]
NoArgs == Args(None, None)
ArgVals == {Args(v, a) : v \in Valves \cup {"all", "valve4"}, a \in {"on", "off", "status"}}
W(output, level) == [output |-> output, level |-> level]

\* (variant: turning on valve2 leaves valve1 as it is)
CallsOfNoInterlock(a) ==
    CASE a = Args("all", "off") ->
           << W("VALVE1", FALSE), W("VALVELED1", FALSE), W("VALVE2", FALSE),
              W("VALVELED2", FALSE), W("VALVE3", FALSE), W("VALVELED3", FALSE) >>
      [] a = Args("valve1", "on") ->
           << W("VALVE1", TRUE), W("VALVELED1", TRUE), W("VALVE2", FALSE),
              W("VALVELED2", FALSE), W("VALVE3", FALSE), W("VALVELED3", FALSE) >>
      [] a = Args("valve1", "off") ->
           << W("VALVE1", FALSE), W("VALVELED1", FALSE) >>
      [] a = Args("valve2", "on") ->
           << W("VALVE2", TRUE), W("VALVELED2", TRUE),
              W("VALVE3", FALSE), W("VALVELED3", FALSE) >>
      [] a = Args("valve2", "off") ->
           << W("VALVE2", FALSE), W("VALVELED2", FALSE) >>
      [] a = Args("valve3", "on") ->
           << W("VALVE1", FALSE), W("VALVELED1", FALSE), W("VALVE2", FALSE),
              W("VALVELED2", FALSE), W("VALVE3", TRUE), W("VALVELED3", TRUE) >>
      [] a = Args("valve3", "off") ->
           << W("VALVE3", FALSE), W("VALVELED3", FALSE) >>
      [] OTHER -> << >>

\* lines 52-106: the GPIO.output calls of the command line a (none: the
\* script ends in error_exit)
CallsOf(a) ==
    CASE a = Args("all", "off") ->
           << W("VALVE1", FALSE), W("VALVELED1", FALSE), W("VALVE2", FALSE),
              W("VALVELED2", FALSE), W("VALVE3", FALSE), W("VALVELED3", FALSE) >>
      [] a = Args("valve1", "on") ->
           << W("VALVE1", TRUE), W("VALVELED1", TRUE), W("VALVE2", FALSE),
              W("VALVELED2", FALSE), W("VALVE3", FALSE), W("VALVELED3", FALSE) >>
      [] a = Args("valve1", "off") ->
           << W("VALVE1", FALSE), W("VALVELED1", FALSE) >>
      [] a = Args("valve2", "on") ->
           << W("VALVE1", FALSE), W("VALVELED1", FALSE), W("VALVE2", TRUE),
              W("VALVELED2", TRUE), W("VALVE3", FALSE), W("VALVELED3", FALSE) >>
      [] a = Args("valve2", "off") ->
           << W("VALVE2", FALSE), W("VALVELED2", FALSE) >>
      [] a = Args("valve3", "on") ->
           << W("VALVE1", FALSE), W("VALVELED1", FALSE), W("VALVE2", FALSE),
              W("VALVELED2", FALSE), W("VALVE3", TRUE), W("VALVELED3", TRUE) >>
      [] a = Args("valve3", "off") ->
           << W("VALVE3", FALSE), W("VALVELED3", FALSE) >>
      [] OTHER -> << >>

\* the outputs all low and no run of the script yet.  out: the level of
\* each output; argv: the command line of the latest accepted run; prev:
\* the one before it; pc: which GPIO.output call of the run comes next
\* (0: no run in progress)
NoGpio == [out |-> [o \in Outputs |-> FALSE], argv |-> NoArgs, prev |-> NoArgs, pc |-> 0]

\* ------------------------------------------------------------------------
\* State
\* ------------------------------------------------------------------------

VARIABLES
    hw,        \* hw[name]: the value the pin of relay `name` holds
    dircnt,    \* dircnt[name]: how often the pin was configured as output
    sockfile,  \* whether the path socket_file exists
    dpc,       \* where the daemon is in main()
    cur,       \* the process whose connection the daemon has accepted
    request,   \* the request being handled (NoReq: none)
    didx,      \* position in relay_dict of the pin being touched
    dphase,    \* "write" or "read": the next access to that pin
    result,    \* the response being built
    backlog,   \* connections made and not yet accepted, oldest first
    chan,      \* chan[p]: the connection of process p
    lock,      \* the process holding flock(LOCK_EX) on the lock file
    cpc,       \* cpc[p]: where process p is
    cmd,       \* history: cmd[p] is the command the daemon read from client p
    out,       \* out[p]: what client p printed
    accepted,  \* history: the connections accepted so far
    owner,     \* history: the connection the latest pin access was made for
    retired,   \* history: connections with pin accesses before owner's
    nwr,       \* history: pin writes issued for the current connection
    nrd,       \* history: pin reads issued for the current connection
    hw0,       \* history: hw when the current connection was accepted
    fault,     \* history: the pin access that raised while handling it
    call,      \* a call of retry() taken by itself: its arguments
    ret,       \* what that call did (NoRet: not made yet)
    config,    \* the relay definitions the daemon is started with
    inst,      \* daemon processes taken by themselves, and the socket path
    gpio       \* power-control.py: the GPIO outputs and the run in progress

hwVars == <<hw, dircnt>>
daemonVars == <<dpc, cur, request, didx, dphase, result>>
netVars == <<sockfile, backlog, chan>>
procVars == <<lock, cpc, cmd, out>>
histVars == <<accepted, owner, retired, nwr, nrd, hw0, fault>>
retryVars == <<call, ret>>
sideVars == <<retryVars, config, inst, gpio>>
vars == <<hw, dircnt, sockfile, dpc, cur, request, didx, dphase, result,
          backlog, chan, lock, cpc, cmd, out,
          accepted, owner, retired, nwr, nrd, hw0, fault, call, ret,
          config, inst, gpio>>

StartingStates == {"init_i2c", "init_mcp", "setup_pins", "bind"}
ServingStates == {"listening", "reading", "dispatching", "responding"}
\* the daemon's listening socket exists and is bound to socket_file
Reachable == sockfile /\ dpc \in ServingStates

Cold ==
    /\ hw \in [RelayNames -> BOOLEAN]
    /\ dircnt = [r \in RelayNames |-> 0]
    /\ sockfile \in BOOLEAN
    /\ dpc = "init_i2c"
    /\ cur = NoProc
    /\ request = NoReq
    /\ didx = 0
    /\ dphase = "idle"
    /\ result = NoResp
    /\ backlog = << >>
    /\ chan = [p \in Procs |-> NoChan]
    /\ lock = NoProc
    /\ cpc = [p \in Procs |-> "init"]
    /\ cmd = [p \in Procs |-> NoCmd]
    /\ out = [p \in Procs |-> NoResp]
    /\ accepted = {}
    /\ owner = NoProc
    /\ retired = {}
    /\ nwr = 0
    /\ nrd = 0
    /\ hw0 = hw
    /\ fault = "none"
    /\ call = NoCall
    /\ ret = NoRet
    /\ inst = NoInst
    /\ gpio = NoGpio

\* the daemon is started with the relay definitions of the source
Init ==
    /\ Cold
    /\ config = Shipped

\* ------------------------------------------------------------------------
\* Daemon: startup (main, before the accept loop)
\* ------------------------------------------------------------------------

\* the exit status of the daemon process: sys.exit(0) in signal_handler,
\* 1 for an exception that main() does not handle; "running" otherwise
ExitStatus(pc) ==
    CASE pc = "stopped" -> "0"
      [] pc = "failed"  -> "1"
      [] OTHER          -> "running"

\* (variant: a failed startup step is ignored and the socket is bound)
DieIgnored ==
    /\ dpc' = "bind"
    /\ UNCHANGED <<cur, request, didx, dphase, result>>

\* an unhandled exception in main(): the interpreter exits with status 1
Die ==
    /\ dpc' = "failed"
    /\ UNCHANGED <<cur, request, didx, dphase, result>>

\* i2c = initialize_i2c()
InitI2C(O) ==
    /\ dpc = "init_i2c"
    /\ \E outcomes \in O :
         IF retry(outcomes, Attempts).ok
         THEN /\ dpc' = "init_mcp"
              /\ UNCHANGED <<cur, request, didx, dphase, result>>
         ELSE Die
    /\ UNCHANGED <<hwVars, netVars, procVars, histVars>>
    /\ UNCHANGED sideVars

\* MCP = initialize_mcp(i2c, i2caddr)
InitMCP(O) ==
    /\ dpc = "init_mcp"
    /\ \E outcomes \in O :
         IF retry(outcomes, Attempts).ok
         THEN /\ dpc' = IF N = 0 THEN "bind" ELSE "setup_pins"
              /\ didx' = IF N = 0 THEN 0 ELSE 1
              /\ UNCHANGED <<cur, request, dphase, result>>
         ELSE Die
    /\ UNCHANGED <<hwVars, netVars, procVars, histVars>>
    /\ UNCHANGED sideVars

\* (variant: the pin is driven low when it is made an output)
ConfigurePinLow(h, name) == [h EXCEPT ![name] = FALSE]

\* setattr(pin, 'direction', Direction.OUTPUT): the value is not written
ConfigurePin(h, name) == h

\* (variant: the loop ends before the last entry)
MorePinsShort(i) == i < N - 1

\* for relay_name, ... in relay_dict.items(): whether an entry follows the
\* one at position i
MorePins(i) == i < N

\* one iteration of setup_relay_pins: the pin's direction is set to OUTPUT
SetupPin(O) ==
    /\ dpc = "setup_pins"
    /\ \E outcomes \in O :
         IF retry(outcomes, Attempts).ok
         THEN /\ dircnt' = [dircnt EXCEPT ![Registry[didx].name] = @ + 1]
              /\ hw' = ConfigurePin(hw, Registry[didx].name)
              /\ dpc' = IF MorePins(didx) THEN "setup_pins" ELSE "bind"
              /\ didx' = IF MorePins(didx) THEN didx + 1 ELSE 0
              /\ UNCHANGED <<cur, request, dphase, result>>
         ELSE Die /\ UNCHANGED <<hw, dircnt>>
    /\ UNCHANGED <<netVars, procVars, histVars>>
    /\ UNCHANGED sideVars

\* (variant: a socket file found at startup is left where it is)
RemoveStaleSkipped(exists) == exists

\* if os.path.exists(socket_file): os.unlink(socket_file)
RemoveStale(exists) == FALSE

\* the stale socket file is removed, the socket is bound and listens;
\* server.bind raises OSError (address already in use) when the path exists
Bind ==
    /\ dpc = "bind"
    /\ IF RemoveStale(sockfile)
       THEN Die /\ UNCHANGED sockfile
       ELSE /\ sockfile' = TRUE
            /\ dpc' = "listening"
            /\ UNCHANGED <<cur, request, didx, dphase, result>>
    /\ UNCHANGED <<hwVars, backlog, chan, procVars, histVars>>
    /\ UNCHANGED sideVars

\* ------------------------------------------------------------------------
\* Daemon: the accept loop
\* ------------------------------------------------------------------------

\* the loop is back at server.accept(); the connection, if any, is closed
ToListening ==
    /\ dpc' = "listening"
    /\ cur' = NoProc
    /\ request' = NoReq
    /\ didx' = 0
    /\ dphase' = "idle"
    /\ result' = NoResp
    /\ nwr' = 0
    /\ nrd' = 0
    /\ fault' = "none"

\* the handler leaves the inner try with `res` as result
ToResponding(res) ==
    /\ dpc' = "responding"
    /\ result' = res
    /\ didx' = 0
    /\ dphase' = "idle"

\* (variant: the exception ends the daemon)
OnExceptionFatal(msg) ==
    /\ dpc' = "failed"
    /\ result' = NoResp
    /\ didx' = 0
    /\ dphase' = "idle"

\* (variant: what was collected before the exception is sent)
OnExceptionPartial(msg) == ToResponding(result)

\* (variant: the exception is swallowed and an empty mapping is sent)
OnExceptionSwallowed(msg) == ToResponding(MapResp(EmptyMap))

\* except Exception as e: result = {"error": str(e)}
OnException(msg) == ToResponding(ErrorResp(msg))

\* (variant: connections are taken while an earlier one is being handled)
CanAcceptAny == TRUE

\* whether the daemon may take the next connection
CanAccept == dpc = "listening"

\* conn, _ = server.accept()
Accept ==
    /\ CanAccept
    /\ backlog # << >>
    /\ cur' = Head(backlog)
    /\ backlog' = Tail(backlog)
    /\ dpc' = "reading"
    /\ accepted' = accepted \cup {Head(backlog)}
    /\ hw0' = hw
    /\ UNCHANGED <<request, didx, dphase, result>>
    /\ UNCHANGED <<hwVars, sockfile, chan, procVars, owner, retired, nwr, nrd, fault>>
    /\ UNCHANGED sideVars

ClientStates == {"lockwait", "locked", "connected", "sent", "finally"}
IsClient(p) == cpc[p] \in ClientStates

\* the bytes process p wrote to its connection.  They are drawn when the
\* daemon reads them: nothing in either program depends on them before.
\* A client sends the command of its arguments and getpass.getuser().
Sent(p, Raw) ==
    IF IsClient(p)
    THEN {Encode(c, u) : c \in Commands, u \in UserVals \ {None}}
    ELSE Raw

\* (variant: whatever is not a relay name is taken as "all")
RouteAllElse(relay) == IF relay \in RelayNames THEN "single" ELSE "all"

\* lines 365-370: which branch takes the request
Route(relay) ==
    CASE relay = "all"        -> "all"
      [] relay = Unhashable   -> "TypeError"
      [] relay \in RelayNames -> "single"
      [] OTHER                -> "Invalid relay name"

\* (variant: every action but "on" drives the pin low, "status" included)
SingleWritesAlways(action) == TRUE

\* perform_action_on_relay: the actions that write the pin before reading it
SingleWrites(action) == action \in {"on", "off"}
\* (variants: `all` never writes; `all` writes for "on" as well)
AllWritesNever(action) == FALSE
AllWritesOnOff(action) == action \in {"on", "off"}

\* perform_all_action: the actions that write each pin before reading it
AllWrites(action) == action = "off"

\* (variant: the relay is driven to the opposite level)
WriteValueInverted(req) == IF req.relay = "all" THEN TRUE ELSE req.action # "on"

\* the value written for the request being dispatched
WriteValue(req) == IF req.relay = "all" THEN FALSE ELSE req.action = "on"

\* (variant: every request writes the pin before reading it)
FirstPhaseWrite(req) == "write"

\* the first access to a pin the request makes
FirstPhase(req) ==
    IF req.relay = "all"
    THEN IF AllWrites(req.action) THEN "write" ELSE "read"
    ELSE IF SingleWrites(req.action) THEN "write" ELSE "read"

\* lines 347-372 up to the first pin access: decoding and the choice of
\* the branch.  With `detail` the model follows the username of the request.
Handle(data, detail) ==
    LET d == Decode(data)
        route == Route(d.relay)
        req == Request(data.kind, d.relay, d.action,
                       IF detail THEN data.username ELSE None)
    IN  /\ request' = req
        /\ IF d.exc # None
           THEN OnException(d.exc)
           ELSE IF route = "TypeError"
           THEN OnException(route)
           ELSE IF route = "all" /\ N = 0
           THEN ToResponding(MapResp(EmptyMap))
           ELSE IF route \in {"all", "single"}
           THEN /\ dpc' = "dispatching"
                /\ didx' = IF route = "all" THEN 1 ELSE Pos(d.relay)
                /\ dphase' = FirstPhase(req)
                /\ result' = IF route = "all" THEN MapResp(EmptyMap) ELSE NoResp
           ELSE ToResponding(ErrorResp(route))

\* data = conn.recv(1024) and what follows it up to the first pin access.
\* Raw is what a process other than the client may have written; with
\* `detail` the model records which command it read from a client.
Recv(Raw, detail) ==
    /\ dpc = "reading"
    /\ chan[cur].sent \/ chan[cur].peerClosed \/ cpc[cur] = "peer_eof"
    /\ IF ~chan[cur].sent
       THEN \* `if not data: continue`: the connection is closed unanswered
            /\ ToListening
            /\ chan' = [chan EXCEPT ![cur].srvClosed = TRUE, ![cur].sent = FALSE]
            /\ hw0' = hw
            /\ UNCHANGED cmd
       ELSE /\ \E data \in Sent(cur, Raw) :
                 /\ Handle(data, detail)
                 /\ cmd' = IF detail /\ IsClient(cur)
                           THEN [cmd EXCEPT ![cur] = Command(data.relay, data.action)]
                           ELSE cmd
            /\ UNCHANGED <<cur, chan, nwr, nrd, hw0, fault>>
    /\ UNCHANGED <<hwVars, sockfile, backlog, lock, cpc, out, accepted, owner, retired>>
    /\ UNCHANGED sideVars

\* history: a pin access is made for connection c
Touch(c) ==
    /\ owner' = c
    /\ retired' = IF owner \in {c, NoProc} THEN retired ELSE retired \cup {owner}

\* (variant: the writes of one request share the attempts)
WriteBudgetShared(k) == IF k = 0 THEN Attempts ELSE 1

\* the attempts retry() gives a pin write that follows k earlier pin
\* writes of the request: `attempts` is the default of each call
WriteBudget(k) == Attempts

\* (variant: the pins are put back as they were when the request came)
FailedWriteRolledBack(h, before) == before

\* the pins after a write that raised through its retries: the handler
\* only builds the error response, what was written before stays written
FailedWrite(h, before) == h

\* retry(lambda: setattr(pin, 'value', v), ...)
HwWrite(O) ==
    /\ dpc = "dispatching"
    /\ dphase = "write"
    /\ \E outcomes \in O :
         IF retry(outcomes, WriteBudget(nwr)).ok
         THEN /\ hw' = WritePin(hw, Registry[didx].name, WriteValue(request))
              /\ dphase' = "read"
              /\ UNCHANGED <<dpc, didx, result, fault>>
         ELSE /\ OnException(WriteFailed)
              /\ fault' = "write"
              /\ hw' = FailedWrite(hw, hw0)
    /\ nwr' = nwr + 1
    /\ Touch(cur)
    /\ UNCHANGED <<dircnt, cur, request, netVars, procVars, accepted, nrd, hw0>>
    /\ UNCHANGED sideVars

\* (variant: the loop over the relays stops one entry early)
AfterReadShort(req, i, res) ==
    IF req.relay = "all" /\ i < N - 1
    THEN /\ didx' = i + 1
         /\ dphase' = FirstPhase(req)
         /\ result' = res
         /\ UNCHANGED dpc
    ELSE ToResponding(res)

\* what follows the read of the pin at position i
AfterRead(req, i, res) ==
    IF req.relay = "all" /\ i < N
    THEN /\ didx' = i + 1
         /\ dphase' = FirstPhase(req)
         /\ result' = res
         /\ UNCHANGED dpc
    ELSE ToResponding(res)

\* (variant: the response carries the value the request asked for)
ObservedAsRequested(req, h, name) ==
    IF req.relay # "all" /\ SingleWrites(req.action) THEN WriteValue(req) ELSE h[name]

\* pin.value: the value the device holds when it is read, whatever the
\* request wrote
Observed(req, h, name) == h[name]

\* an operation called outside retry(): its first invocation decides
direct(outcomes) == [ok |-> outcomes[1], calls |-> 1]

\* pin.value, read outside retry().  RO: what the read and the further
\* reads a retry would make may do.
HwRead(RO) ==
    /\ dpc = "dispatching"
    /\ dphase = "read"
    /\ \E outcomes \in RO :
         LET name == Registry[didx].name
             st == translate_state(Observed(request, hw, name))
         IN  IF direct(outcomes).ok
             THEN /\ AfterRead(request, didx,
                        IF request.relay = "all"
                        THEN MapResp([x \in DOMAIN result.map \cup {name} |->
                                        IF x = name THEN st ELSE result.map[x]])
                        ELSE StatusResp(name, st))
                  /\ UNCHANGED fault
             ELSE /\ OnException(ReadFailed)
                  /\ fault' = "read"
    /\ nrd' = nrd + 1
    /\ Touch(cur)
    /\ UNCHANGED <<hwVars, cur, request, netVars, procVars, accepted, nwr, hw0>>
    /\ UNCHANGED sideVars

\* what the model keeps of a response once it has left the daemon: all of
\* it, or only which of the three shapes it has
Summary(res, detail) ==
    IF detail
    THEN res
    ELSE [res EXCEPT !.error = IF @ = None THEN None ELSE "error",
                     !.relay = None, !.status = None, !.map = EmptyMap]

\* a response that was sent and whose content the model does not follow:
\* what a peer other than the client does with it is outside the model
Unread == [NoResp EXCEPT !.kind = "unread"]

\* conn.sendall(response) and the close of `with conn`, seen from the
\* connection: a send to a peer that is gone raises and delivers nothing
Deliver(ch, res) ==
    IF ch.peerClosed
    THEN [ch EXCEPT !.srvClosed = TRUE, !.sent = FALSE]
    ELSE [ch EXCEPT !.resp = res, !.nresp = @ + 1, !.srvClosed = TRUE]

\* (variant: an exception of the loop body ends the daemon)
OuterExceptFatal ==
    /\ dpc' = "failed"
    /\ cur' = NoProc
    /\ request' = NoReq
    /\ didx' = 0
    /\ dphase' = "idle"
    /\ result' = NoResp
    /\ nwr' = 0
    /\ nrd' = 0
    /\ fault' = "none"

\* the outer `except Exception`: the error is logged, the daemon sleeps
\* 0.1 s and the loop goes on with the next accept()
OuterExcept == ToListening

\* conn.sendall(response), then `with conn` closes the connection; an
\* exception of sendall (the peer is gone) is taken by the outer handler
Respond(detail) ==
    /\ dpc = "responding"
    /\ chan' = [chan EXCEPT ![cur] =
                  Deliver(@, IF IsClient(cur) THEN Summary(result, detail) ELSE Unread)]
    /\ IF chan[cur].peerClosed THEN OuterExcept ELSE ToListening
    /\ hw0' = hw
    /\ UNCHANGED <<hwVars, sockfile, backlog, procVars, accepted, owner, retired>>
    /\ UNCHANGED sideVars

\* the daemon's end of a connection is closed by the exit of the process;
\* bytes it has not read are dropped once both ends are closed
Hangup(ch) ==
    [ch EXCEPT !.srvClosed = TRUE, !.sent = IF ch.peerClosed THEN FALSE ELSE @]

\* (variant: the socket file is left behind)
UnlinkKept(exists) == exists

\* if os.path.exists(socket_file): os.unlink(socket_file)
Unlink(exists) == FALSE

\* signal_handler: SIGTERM or SIGINT at any point of the running daemon
Signal ==
    /\ dpc \notin {"stopped", "failed"}
    /\ sockfile' = Unlink(sockfile)
    /\ dpc' = "stopped"
    /\ cur' = NoProc
    /\ request' = NoReq
    /\ didx' = 0
    /\ dphase' = "idle"
    /\ result' = NoResp
    /\ backlog' = << >>
    /\ chan' = [p \in Procs |->
                  IF p = cur \/ (\E i \in 1..Len(backlog) : backlog[i] = p)
                  THEN Hangup(chan[p])
                  ELSE chan[p]]
    /\ nwr' = 0
    /\ nrd' = 0
    /\ fault' = "none"
    /\ hw0' = hw
    /\ UNCHANGED <<hwVars, procVars, accepted, owner, retired>>
    /\ UNCHANGED sideVars

\* ------------------------------------------------------------------------
\* Client (irrigation-controller.py)
\* ------------------------------------------------------------------------

\* the process closes its end of its connection: a response it has not
\* read is dropped (and no longer counted), and so are its bytes once both
\* ends are closed
Close(ch) ==
    [ch EXCEPT !.peerClosed = TRUE, !.resp = NoResp, !.nresp = 0,
               !.sent = IF ch.srvClosed THEN FALSE ELSE @]

\* what `except Exception as e: print({"error": str(e)})` prints
ClientError(msg) == ErrorResp(msg)

\* (variant: the lock is not exclusive)
LockAlwaysFree(p) == TRUE

\* whether flock(LOCK_EX) of process p returns
LockFree(p) == lock = NoProc

\* parse_arguments(), then MCPAtomicAccess.__enter__ opens the lock file
\* and calls flock(LOCK_EX)
ClientStart(p) ==
    /\ cpc[p] = "init"
    /\ cpc' = [cpc EXCEPT ![p] = "lockwait"]
    /\ UNCHANGED <<hwVars, daemonVars, netVars, lock, cmd, out, histVars>>
    /\ UNCHANGED sideVars

\* flock(LOCK_EX) returns
ClientLock(p) ==
    /\ cpc[p] = "lockwait"
    /\ LockFree(p)
    /\ lock' = p
    /\ cpc' = [cpc EXCEPT ![p] = "locked"]
    /\ UNCHANGED <<hwVars, daemonVars, netVars, cmd, out, histVars>>
    /\ UNCHANGED sideVars

\* (variant: the client goes back to connect once more)
AfterRefusedRetry == "locked"

\* where the client is after connect raised: in `finally`, past the one
\* try block that holds connect, sendall and recv
AfterRefused == "finally"

\* client.connect(socket_file)
ClientConnect(p) ==
    /\ cpc[p] = "locked"
    /\ IF Reachable
       THEN /\ Len(backlog) < ListenBacklog
            /\ backlog' = Append(backlog, p)
            /\ cpc' = [cpc EXCEPT ![p] = "connected"]
            /\ UNCHANGED out
       ELSE /\ out' = [out EXCEPT ![p] = ClientError("connect")]
            /\ cpc' = [cpc EXCEPT ![p] = AfterRefused]
            /\ UNCHANGED backlog
    /\ UNCHANGED <<hwVars, daemonVars, sockfile, chan, lock, cmd, histVars>>
    /\ UNCHANGED sideVars

\* client.sendall(json.dumps(command).encode("utf-8"))
ClientSend(p) ==
    /\ cpc[p] = "connected"
    /\ IF chan[p].srvClosed
       THEN /\ out' = [out EXCEPT ![p] = ClientError("send")]
            /\ cpc' = [cpc EXCEPT ![p] = "finally"]
            /\ UNCHANGED chan
       ELSE /\ chan' = [chan EXCEPT ![p].sent = TRUE]
            /\ cpc' = [cpc EXCEPT ![p] = "sent"]
            /\ UNCHANGED out
    /\ UNCHANGED <<hwVars, daemonVars, sockfile, backlog, lock, cmd, histVars>>
    /\ UNCHANGED sideVars

\* response = client.recv(1024); print(json.loads(response.decode("utf-8")))
ClientRecv(p) ==
    /\ cpc[p] = "sent"
    /\ chan[p].resp # NoResp \/ chan[p].srvClosed
    /\ out' = [out EXCEPT ![p] =
                 IF chan[p].resp # NoResp THEN chan[p].resp ELSE ClientError("recv")]
    /\ cpc' = [cpc EXCEPT ![p] = "finally"]
    /\ UNCHANGED <<hwVars, daemonVars, netVars, lock, cmd, histVars>>
    /\ UNCHANGED sideVars

\* (variant: the lock is kept by an invocation that printed an error)
UnlockOnResponse(l, p, printed) ==
    IF l = p /\ printed.kind # "error" THEN NoProc ELSE l

\* MCPAtomicAccess.__exit__: fcntl.flock(LOCK_UN) and close of the lock
\* file, whatever the body of the `with` block printed
Unlock(l, p, printed) == IF l = p THEN NoProc ELSE l

\* the exit status of a client process: the script ran to its end
\* (parser.error exits with 2 before the lock is taken; an exception of
\* __enter__ is not handled and ends the interpreter with 1)
ClientExitStatus(pc) ==
    CASE pc = "done" -> "0"
      [] OTHER       -> "running"

\* finally: client.close(); MCPAtomicAccess.__exit__ unlocks and closes;
\* the script ends.  With `detail` the model goes on remembering what the
\* finished invocation printed.
ClientRelease(p, detail) ==
    /\ cpc[p] = "finally"
    /\ lock' = Unlock(lock, p, out[p])
    /\ chan' = [chan EXCEPT ![p] = Close(@)]
    /\ out' = IF detail THEN out ELSE [out EXCEPT ![p] = NoResp]
    /\ cpc' = [cpc EXCEPT ![p] = "done"]
    /\ UNCHANGED <<hwVars, daemonVars, sockfile, backlog, cmd, histVars>>
    /\ UNCHANGED sideVars

\* ------------------------------------------------------------------------
\* Any other local process that can reach the socket file
\* ------------------------------------------------------------------------

PeerConnect(p) ==
    /\ cpc[p] = "init"
    /\ Reachable
    /\ Len(backlog) < ListenBacklog
    /\ backlog' = Append(backlog, p)
    /\ cpc' = [cpc EXCEPT ![p] = "peer_connected"]
    /\ UNCHANGED <<hwVars, daemonVars, sockfile, chan, lock, cmd, out, histVars>>
    /\ UNCHANGED sideVars

\* the peer writes some bytes (read by the daemon as Sent(p))
PeerSend(p) ==
    /\ cpc[p] = "peer_connected"
    /\ ~chan[p].srvClosed
    /\ chan' = [chan EXCEPT ![p].sent = TRUE]
    /\ cpc' = [cpc EXCEPT ![p] = "peer_sent"]
    /\ UNCHANGED <<hwVars, daemonVars, sockfile, backlog, lock, cmd, out, histVars>>
    /\ UNCHANGED sideVars

\* the peer shuts down its sending side without having written anything
\* (conn.recv then returns b''); it can still read
PeerShutdown(p) ==
    /\ cpc[p] = "peer_connected"
    /\ cpc' = [cpc EXCEPT ![p] = "peer_eof"]
    /\ UNCHANGED <<hwVars, daemonVars, netVars, lock, cmd, out, histVars>>
    /\ UNCHANGED sideVars

\* the peer closes its end, or exits
PeerClose(p) ==
    /\ cpc[p] \in {"peer_connected", "peer_sent", "peer_eof"}
    /\ chan' = [chan EXCEPT ![p] = Close(@)]
    /\ cpc' = [cpc EXCEPT ![p] = "done"]
    /\ UNCHANGED <<hwVars, daemonVars, sockfile, backlog, lock, cmd, out, histVars>>
    /\ UNCHANGED sideVars

\* ------------------------------------------------------------------------
\* Specifications
\* ------------------------------------------------------------------------

\* main() before the accept loop
StartStep(O) ==
    \/ InitI2C(O)
    \/ InitMCP(O)
    \/ SetupPin(O)
    \/ Bind

\* the accept loop
ServeStep(O, RO, Raw, detail) ==
    \/ Accept
    \/ Recv(Raw, detail)
    \/ HwWrite(O)
    \/ HwRead(RO)
    \/ Respond(detail)

ClientStep(p, detail) ==
    \/ ClientStart(p)
    \/ ClientLock(p)
    \/ ClientConnect(p)
    \/ ClientSend(p)
    \/ ClientRecv(p)
    \/ ClientRelease(p, detail)

PeerStep(p) ==
    \/ PeerConnect(p)
    \/ PeerSend(p)
    \/ PeerShutdown(p)
    \/ PeerClose(p)

\* what a peer may write, the username left out: a specification that
\* does not follow usernames reads the same request from the others
Anonymous == {w \in RawPayloads : w.username = None}

\* every behaviour: bus faults, stop signals, clients and other peers
Next ==
    \/ StartStep(Outcomes)
    \/ ServeStep(Outcomes, Steady, Anonymous, FALSE)
    \/ Signal
    \/ \E p \in Procs : ClientStep(p, FALSE)
    \/ \E p \in Procs : PeerStep(p)

Spec == Init /\ [][Next]_vars

\* the state a successful startup leaves: every pin configured once, the
\* socket bound, the daemon in accept()
Serving ==
    /\ dircnt = [r \in RelayNames |-> 1]
    /\ sockfile = TRUE
    /\ dpc = "listening"
    /\ cur = NoProc /\ request = NoReq /\ didx = 0 /\ dphase = "idle"
    /\ result = NoResp /\ backlog = << >>
    /\ chan = [p \in Procs |-> NoChan]
    /\ lock = NoProc
    /\ cpc = [p \in Procs |-> "init"]
    /\ cmd = [p \in Procs |-> NoCmd]
    /\ out = [p \in Procs |-> NoResp]
    /\ accepted = {} /\ owner = NoProc /\ retired = {}
    /\ nwr = 0 /\ nrd = 0 /\ fault = "none"

InitServing ==
    /\ hw \in [RelayNames -> BOOLEAN]
    /\ hw0 = hw
    /\ Serving
    /\ call = NoCall
    /\ ret = NoRet
    /\ config = Shipped
    /\ inst = NoInst
    /\ gpio = NoGpio

\* client invocations against a running daemon: no bus fault, no stop
\* signal, no other peer; commands and printed responses are remembered
NextClients ==
    \/ ServeStep(NoFault, NoFault, {}, TRUE)
    \/ \E p \in Procs : ClientStep(p, TRUE)

\* the daemon's loop runs, every invocation runs, flock grants the lock
FairClients ==
    /\ WF_vars(ServeStep(NoFault, NoFault, {}, TRUE))
    /\ \A p \in Procs : WF_vars(ClientStep(p, TRUE))

SpecClients == InitServing /\ [][NextClients]_vars /\ FairClients

\* the outcomes of an operation under retry() that raises on its first
\* attempt and returns within the budget
Transient == {o \in Outcomes : ~o[1] /\ \E k \in 2..Attempts : o[k]}

\* client invocations while every pin write meets such a transient fault
NextTransient ==
    \/ ServeStep(Transient, NoFault, {}, TRUE)
    \/ \E p \in Procs : ClientStep(p, TRUE)

SpecTransient == InitServing /\ [][NextTransient]_vars

\* client invocations while every pin read meets such a transient fault
NextTransientReads ==
    \/ ServeStep(NoFault, Transient, {}, TRUE)
    \/ \E p \in Procs : ClientStep(p, TRUE)

SpecTransientReads == InitServing /\ [][NextTransientReads]_vars

\* client invocations while pin writes and pin reads may raise
NextFaulty ==
    \/ ServeStep(Outcomes, Steady, {}, FALSE)
    \/ \E p \in Procs : ClientStep(p, FALSE)

FairFaulty ==
    /\ WF_vars(ServeStep(Outcomes, Steady, {}, FALSE))
    /\ \A p \in Procs : WF_vars(ClientStep(p, FALSE))

SpecFaulty == InitServing /\ [][NextFaulty]_vars /\ FairFaulty

\* what the peers of SpecPeers write: undecodable bytes, and on and off
\* for every relay, for "all" and for a name that is not configured
PeerPayloads ==
    {w \in RawPayloads :
        \/ w.kind # "object"
        \/ /\ w.relay \in RelayNames \cup {"all", "valve99"}
           /\ w.action \in {"on", "off"}
           /\ w.username = None}

\* local peers against a running daemon with an unreliable bus: such
\* bytes or none, half-closed or closed connections, no stop signal
NextPeers ==
    \/ ServeStep(Outcomes, Steady, PeerPayloads, FALSE)
    \/ \E p \in Procs : PeerStep(p)

\* the daemon's loop runs; a peer that has connected goes on to send, to
\* shut down or to close
FairPeers ==
    /\ WF_vars(ServeStep(Outcomes, Steady, PeerPayloads, FALSE))
    /\ WF_vars(\E p \in Procs : PeerSend(p) \/ PeerShutdown(p) \/ PeerClose(p))

SpecPeers == InitServing /\ [][NextPeers]_vars /\ FairPeers

\* what the processes of SpecUsers write: every command of the client,
\* under each username and under none
UserPayloads ==
    {w \in RawPayloads :
        /\ w.kind = "object"
        /\ w.relay \in ClientRelays
        /\ w.action \in ClientActions}

\* local processes against a running daemon, no bus fault and no stop
\* signal; the username of each request is followed
NextUsers ==
    \/ ServeStep(NoFault, NoFault, UserPayloads, TRUE)
    \/ \E p \in Procs : PeerStep(p)

SpecUsers == InitServing /\ [][NextUsers]_vars

\* the pin of a relay changes outside the daemon (a reset of the expander,
\* another bus master, a write that did not latch): between two requests,
\* or before a pin is read.  A change after the read is not seen by the
\* request and is left out.
External ==
    /\ \/ dpc = "listening"
       \/ dpc = "dispatching" /\ dphase = "read"
    /\ \E r \in RelayNames : hw' = [hw EXCEPT ![r] = ~@]
    /\ UNCHANGED <<dircnt, daemonVars, netVars, procVars, histVars, sideVars>>

\* client invocations against a running daemon whose pins also change
\* outside the daemon
NextExternal ==
    \/ ServeStep(NoFault, NoFault, {}, FALSE)
    \/ \E p \in Procs : ClientStep(p, FALSE)
    \/ External

SpecExternal == InitServing /\ [][NextExternal]_vars

\* retry() taken by itself: a call with any outcomes of the invocations of
\* its operation and any number of attempts
InitRetry ==
    /\ hw = [r \in RelayNames |-> FALSE]
    /\ hw0 = hw
    /\ Serving
    /\ call \in Calls
    /\ ret = NoRet
    /\ config = Shipped
    /\ inst = NoInst
    /\ gpio = NoGpio

RetryCall ==
    /\ call # NoCall
    /\ ret = NoRet
    /\ ret' = retry(call.outcomes, call.attempts)
    /\ UNCHANGED <<call, config, inst, gpio>>
    /\ UNCHANGED <<hwVars, daemonVars, netVars, procVars, histVars>>

NextRetry == RetryCall

SpecRetry == InitRetry /\ [][NextRetry]_vars

\* startups of the daemon with any relay definitions, any pin levels, with
\* or without a socket file of a previous run, and with bus faults
InitStartup ==
    /\ Cold
    /\ config \in Configs

NextStartup == StartStep(Outcomes)

SpecStartup == InitStartup /\ [][NextStartup]_vars

\* client invocations against a daemon that may be stopped at any point and
\* whose bus may fail: every way an exchange can end
NextStops ==
    \/ ServeStep(Outcomes, Steady, {}, FALSE)
    \/ Signal
    \/ \E p \in Procs : ClientStep(p, FALSE)

SpecStops == InitServing /\ [][NextStops]_vars

\* clients and other local processes against a running daemon with a sound
\* bus.  The daemon's loop runs and every client invocation runs; a
\* process that is not the client is under no obligation to send or close.
NextSilent ==
    \/ ServeStep(NoFault, NoFault, PeerPayloads, FALSE)
    \/ \E p \in Procs : ClientStep(p, FALSE)
    \/ \E p \in Procs : PeerStep(p)

FairSilent ==
    /\ WF_vars(ServeStep(NoFault, NoFault, PeerPayloads, FALSE))
    /\ \A p \in Procs : WF_vars(ClientStep(p, FALSE))

SpecSilent == InitServing /\ [][NextSilent]_vars /\ FairSilent

\* --- several daemon processes on one machine, each seen from outside:
\* off, starting (lines 323-325), binding (the stale file check is done),
\* listening, stopped (signal_handler) or failed (unhandled exception)

InstUnchanged ==
    UNCHANGED <<hwVars, daemonVars, netVars, procVars, histVars, retryVars, config, gpio>>

\* the program is started (again)
InstStart(d) ==
    /\ inst.pc[d] \in {"off", "stopped", "failed"}
    /\ inst' = [inst EXCEPT !.pc[d] = "starting"]
    /\ InstUnchanged

\* lines 328-330: whatever is at the socket path is unlinked
InstRemoveStale(d) ==
    /\ inst.pc[d] = "starting"
    /\ inst' = [inst EXCEPT !.pc[d] = "binding", !.path = NoDaemon]
    /\ InstUnchanged

\* lines 333-337: bind creates the socket file; it raises when the path
\* exists
InstBind(d) ==
    /\ inst.pc[d] = "binding"
    /\ inst' = IF inst.path = NoDaemon
               THEN [inst EXCEPT !.pc[d] = "listening", !.path = d]
               ELSE [inst EXCEPT !.pc[d] = "failed"]
    /\ InstUnchanged

\* signal_handler: whatever is at the socket path is unlinked, sys.exit(0)
InstSignal(d) ==
    /\ inst.pc[d] \in {"starting", "binding", "listening"}
    /\ inst' = [inst EXCEPT !.pc[d] = "stopped", !.path = NoDaemon]
    /\ InstUnchanged

NextInstances ==
    \E d \in Daemons :
        \/ InstStart(d)
        \/ InstRemoveStale(d)
        \/ InstBind(d)
        \/ InstSignal(d)

\* the daemon of the other specifications and the pins do not take part
Aside ==
    /\ InitServing
    /\ hw = [r \in RelayNames |-> FALSE]

SpecInstances == Aside /\ [][NextInstances]_vars

\* --- power-control.py, one run after the other

GpioUnchanged ==
    UNCHANGED <<hwVars, daemonVars, netVars, procVars, histVars, retryVars, config, inst>>

\* lines 27-49: the script is run with a command line.  GPIO.setup sets
\* directions only; a command line that is not accepted ends in error_exit
\* before any output is written.
GpioRun ==
    /\ gpio.pc = 0
    /\ \E a \in ArgVals :
         IF CallsOf(a) = << >>
         THEN UNCHANGED gpio
         ELSE gpio' = [gpio EXCEPT !.argv = a, !.prev = gpio.argv, !.pc = 1]
    /\ GpioUnchanged

\* the next GPIO.output call of the run; after the last one the script ends
GpioOutput ==
    /\ gpio.pc > 0
    /\ LET w == CallsOf(gpio.argv)[gpio.pc]
       IN  gpio' = [gpio EXCEPT !.out[w.output] = w.level,
                                !.pc = IF gpio.pc < Len(CallsOf(gpio.argv))
                                       THEN gpio.pc + 1 ELSE 0]
    /\ GpioUnchanged

NextLegacy == GpioRun \/ GpioOutput

SpecLegacy == Aside /\ [][NextLegacy]_vars

\* ------------------------------------------------------------------------
\* Properties
\* ------------------------------------------------------------------------

AllOff == [r \in RelayNames |-> "off"]
\* a single-relay request that writes the pin
WritesOne(c) == c.relay \in RelayNames /\ c.action \in {"on", "off"}

\* C1: pin accesses of different connections never interleave.  A
\* connection whose accesses were followed by another's makes no further
\* access; every accepted connection except the one in service has been
\* closed by the daemon; and every access is made for the one in service.
C1_Serialized ==
    /\ owner \notin retired
    /\ \A p \in accepted \ {cur} : chan[p].srvClosed
    /\ (nwr + nrd > 0) => (dpc \in {"dispatching", "responding"} /\ owner = cur)

\* a connection waits in the backlog while pins are accessed for another
C1_Witness ==
    /\ dpc = "dispatching"
    /\ nwr + nrd > 0
    /\ backlog # << >>

\* C2 (safety part): when two client invocations that asked to switch two
\* different relays are the only requests so far and both have ended, each
\* printed the success response with the state it asked for and both relays
\* hold the states asked for.
C2_NoLostWrite ==
    \A p \in Procs, q \in Procs :
        ( /\ p # q
          /\ cpc[p] = "done" /\ cpc[q] = "done"
          /\ WritesOne(cmd[p]) /\ WritesOne(cmd[q])
          /\ cmd[p].relay # cmd[q].relay
          /\ \A o \in Procs \ {p, q} : cmd[o] = NoCmd )
        => /\ out[p] = StatusResp(cmd[p].relay, cmd[p].action)
           /\ hw[cmd[p].relay] = (cmd[p].action = "on")

\* C2: two client requests issued concurrently for two different relays
\* both complete, with success responses reporting the requested states,
\* and both relays hold the requested states afterwards, whatever the
\* interleaving of the clients.
C2_Concurrent ==
    /\ []C2_NoLostWrite
    /\ <>(\A p \in Procs : cpc[p] = "done")

C2_Witness ==
    \E p \in Procs, q \in Procs :
        /\ p # q
        /\ cpc[p] = "done" /\ cpc[q] = "done"
        /\ WritesOne(cmd[p]) /\ WritesOne(cmd[q])
        /\ cmd[p].relay # cmd[q].relay
        /\ cmd[p].action = "on" /\ cmd[q].action = "off"
        /\ \A o \in Procs \ {p, q} : cmd[o] = NoCmd

\* from the return of flock(LOCK_EX) to the unlock of __exit__
InExchange(p) == cpc[p] \in {"locked", "connected", "sent", "finally"}

\* C3: a client is in its connect/send/receive sequence only while it holds
\* the lock, so no two clients are in theirs at the same time.
C3_ClientsExclusive ==
    /\ \A p \in Procs : InExchange(p) => lock = p
    /\ \A p \in Procs, q \in Procs : (InExchange(p) /\ InExchange(q)) => p = q

\* one client waits for the lock while another has sent its request
C3_Witness ==
    \E p \in Procs, q \in Procs : cpc[p] = "sent" /\ cpc[q] = "lockwait"

\* C4: while and after a single-relay on or off request for r is handled,
\* every other relay holds the value it held when the request was accepted.
C4_OtherRelaysKept ==
    (dpc \in {"dispatching", "responding"} /\ WritesOne(request))
    => \A r2 \in RelayNames \ {request.relay} : hw[r2] = hw0[r2]

\* relay r was switched on while another relay was on, and stays on
C4_Witness ==
    /\ dpc = "responding"
    /\ WritesOne(request) /\ request.action = "on"
    /\ hw[request.relay] /\ ~hw0[request.relay]
    /\ \E r2 \in RelayNames \ {request.relay} : hw[r2]

C6_AllOnRejected ==
    (dpc = "responding" /\ request.relay = "all" /\ request.action = "on")
    => result.kind = "error"

\* C7: a request for "all" with action "on" writes no pin: no write is
\* issued and every relay holds the value it held before the request.
C7_AllOnNoWrite ==
    (request.relay = "all" /\ request.action = "on")
    => (nwr = 0 /\ hw = hw0)

\* all+on was answered while some relay is on
C7_Witness ==
    /\ dpc = "responding"
    /\ request.relay = "all" /\ request.action = "on"
    /\ result.kind = "mapping"
    /\ \E r \in RelayNames : hw[r]

\* C8: a request (a JSON object) whose relay is neither a configured name
\* nor "all" is answered with an error response, whatever its action, and
\* no pin is read or written for it.
C8_UnknownRelay ==
    (request.kind = "object" /\ request.relay \notin RelayNames \cup {"all"})
    => /\ dpc = "responding"
       /\ result.kind = "error"
       /\ nwr = 0 /\ nrd = 0 /\ hw = hw0

\* the relay named "valve99" with action "on" is being answered
C8_Witness ==
    /\ dpc = "responding"
    /\ request.kind = "object"
    /\ request.relay = "valve99" /\ request.action = "on"

\* C9 as claimed: a request for a known relay or "all" whose action is not
\* on, off or status (or is absent) is rejected with an error response
\* before any pin is read or written.
C9_InvalidActionRejected ==
    (dpc = "responding" /\ request.kind = "object"
        /\ request.relay \in RelayNames \cup {"all"}
        /\ request.action \notin {"on", "off", "status"})
    => /\ result.kind = "error"
       /\ nwr = 0 /\ nrd = 0

Undecodable == {"badutf8", "badjson", "value"}

\* C10 (state part): a request that cannot be decoded is answered with an
\* error response and no pin is read or written for it.
C10_NoAccess ==
    (request.kind \in Undecodable)
    => /\ dpc = "responding"
       /\ result.kind = "error"
       /\ nwr = 0 /\ nrd = 0 /\ hw = hw0

\* C10 (step part): from there the daemon goes back to accept() (unless a
\* stop signal ends it).
C10_BackToListening ==
    (request.kind \in Undecodable /\ dpc' # dpc)
    => dpc' \in {"listening", "stopped"}

\* C10: bytes that are not UTF-8, text that is not JSON, and JSON that is
\* not an object get an error response, cause no pin access, and leave the
\* daemon listening.
C10_Undecodable == []C10_NoAccess /\ [][C10_BackToListening]_vars

C10_Witness ==
    /\ dpc = "responding"
    /\ request.kind = "value"
    /\ result.kind = "error"

\* C11 as claimed: every connection the daemon has accepted and is done
\* with, whatever its peer sent (nothing included), has been sent exactly
\* one response and is closed.  (Stated for a running daemon and a peer
\* that has not closed its end.)
C11_OneResponseEach ==
    \A p \in accepted :
        (p # cur /\ dpc \in ServingStates /\ ~chan[p].peerClosed)
        => (chan[p].srvClosed /\ chan[p].nresp = 1)

\* the client's request needs a pin write
NeedsWrite(c) == WritesOne(c) \/ (c.relay = "all" /\ c.action = "off")
\* the success response to such a request
Success(c) ==
    IF c.relay = "all" THEN MapResp(AllOff) ELSE StatusResp(c.relay, c.action)

\* C12: when every pin write of an on or off request (single relay, or
\* all+off) raises on its first attempt and returns by the third, the
\* client prints the success response with the resulting status, not an
\* error.
C12_TransientMasked ==
    \A p \in Procs :
        (cpc[p] \in {"finally", "done"} /\ NeedsWrite(cmd[p]))
        => (out[p] = Success(cmd[p]) /\ out[p].kind # "error")

\* an on request and an all+off request have both been answered
C12_Witness ==
    \E p \in Procs, q \in Procs :
        /\ cpc[p] = "done" /\ cpc[q] = "done"
        /\ WritesOne(cmd[p]) /\ cmd[p].action = "on"
        /\ cmd[q].relay = "all" /\ cmd[q].action = "off"

\* C13 (state part): once a pin access of a request has raised for good,
\* the daemon is about to answer with a message that has only an error key.
C13_ErrorAnswer ==
    (fault # "none")
    => (dpc = "responding" /\ result.kind = "error" /\ Keys(result) = {"error"})

\* C13 (step part): the next step of the daemon sends that response to the
\* requesting client and returns to accept().
C13_Delivered ==
    (fault # "none" /\ dpc' # dpc)
    => /\ dpc' = "listening"
       /\ chan'[cur].resp = Summary(result, FALSE)
       /\ chan'[cur].resp.kind = "error"
       /\ chan'[cur].nresp = 1

\* C13: a hardware operation that fails through its whole retry budget
\* gives the requesting client an error response; the request does not
\* hang, the daemon does not end, and later connections are served (every
\* invocation finishes).
C13_HardwareError ==
    /\ []C13_ErrorAnswer
    /\ [][C13_Delivered]_vars
    /\ (fault # "none") ~> (dpc = "listening")
    /\ <>(\A p \in Procs : cpc[p] = "done")

\* a client has printed the error response, the daemon is back in
\* accept(), and another invocation is waiting for its turn
C13_Witness ==
    \E p \in Procs, q \in Procs :
        /\ cpc[p] = "finally"
        /\ out[p].kind = "error"
        /\ dpc = "listening"
        /\ cpc[q] = "lockwait"

StatusAfter(p) ==
    /\ dpc = "responding"
    /\ cur \notin {p, NoProc}
    /\ request.relay \in RelayNames /\ request.action = "status"
    /\ cpc[p] = "done"
    /\ WritesOne(cmd[p]) /\ cmd[p].relay = request.relay
    /\ out[p] = Success(cmd[p])
    /\ \A o \in Procs \ {p, cur} : cmd[o] = NoCmd

\* C15: with no request in between and no hardware fault, a status request
\* for r right after a successful on request for r answers "on", and right
\* after a successful off request answers "off".
C15_RoundTrip ==
    \A p \in Procs :
        StatusAfter(p) => result = StatusResp(request.relay, cmd[p].action)

C15_Witness ==
    \E p \in Procs :
        StatusAfter(p) /\ cmd[p].action = "on" /\ result.status = "on"

\* C16: an off request for a relay that is off is answered with the
\* ordinary success response {relay: r, status: "off"} and changes no pin,
\* so that repeating it gives the same response and state every time.
C16_OffIdempotent ==
    (dpc = "responding" /\ WritesOne(request) /\ request.action = "off"
        /\ ~hw0[request.relay])
    => (result = StatusResp(request.relay, "off") /\ hw = hw0)

\* the off request being answered repeats an earlier off for the same relay
C16_Witness ==
    /\ dpc = "responding"
    /\ WritesOne(request) /\ request.action = "off"
    /\ ~hw0[request.relay]
    /\ \E p \in Procs \ {cur} :
          cpc[p] = "done" /\ cmd[p] = Command(request.relay, "off")

\* C17: without a hardware fault the answer to all+status is a mapping
\* whose keys are exactly the configured relay names, each with the value
\* its pin holds; no pin is written.
C17_AllStatus ==
    (dpc = "responding" /\ request.relay = "all" /\ request.action = "status"
        /\ fault = "none")
    => /\ result.kind = "mapping"
       /\ Keys(result) = RelayNames
       /\ \A r \in RelayNames : result.map[r] = translate_state(hw[r])
       /\ nwr = 0 /\ nrd = N

\* all+status is answered while one relay is on and another is off
C17_Witness ==
    /\ dpc = "responding"
    /\ request.relay = "all" /\ request.action = "status"
    /\ fault = "none"
    /\ \E r1 \in RelayNames, r2 \in RelayNames : hw[r1] /\ ~hw[r2]

\* C18: the answer to a request for "all" is either a mapping with an entry
\* for every configured relay (and no error key) or a message with the
\* error key only, also when a pin access fails partway through the relays.
C18_AllOrError ==
    (dpc = "responding" /\ request.kind = "object" /\ request.relay = "all")
    => \/ result.kind = "mapping" /\ Keys(result) = RelayNames
       \/ result.kind = "error" /\ Keys(result) = {"error"}

\* a pin access failed after an earlier relay had been read
C18_Witness ==
    /\ dpc = "responding"
    /\ request.relay = "all"
    /\ fault # "none"
    /\ nrd >= 2
    /\ result.kind = "error"

Connected(p) ==
    cpc[p] \in {"connected", "sent", "peer_connected", "peer_sent", "peer_eof"}

\* C20 (state part): the socket is bound only when every pin has been
\* configured, and a daemon whose startup failed has exit status 1 and has
\* never had a connection.
C20_BoundAfterSetup ==
    /\ (dpc \in ServingStates \cup {"bind"})
          => \A r \in RelayNames : dircnt[r] = 1
    /\ (dpc = "failed")
          => /\ ExitStatus(dpc) = "1"
             /\ accepted = {} /\ backlog = << >>
             /\ \A p \in Procs : ~Connected(p)

\* C20 (step part): a startup step leads to the next startup step, to the
\* bound socket, or out of the program; a failed daemon stays failed and
\* does not create the socket file.
C20_FailedStays ==
    /\ (dpc \in StartingStates)
          => dpc' \in StartingStates \cup {"listening", "failed", "stopped"}
    /\ (dpc = "failed") => (dpc' = "failed" /\ sockfile' = sockfile)

\* C20: startup failure is fatal: the endpoint is bound only after the
\* bus, the device and every pin have been set up, and a step that fails
\* through its retries ends the daemon with a non-zero status before any
\* bind or accept.
C20_StartupFatal == []C20_BoundAfterSetup /\ [][C20_FailedStays]_vars

\* startup failed at a pin after another pin had been configured
C20_Witness ==
    /\ dpc = "failed"
    /\ \E r1 \in RelayNames, r2 \in RelayNames : dircnt[r1] = 1 /\ dircnt[r2] = 0

\* C21: once the daemon has received a stop signal it has exited with
\* status 0, the socket file is gone, no connection is in service or
\* waiting, and every connection a process still holds has been closed by
\* the daemon: nothing connects to it any more.
C21_StoppedForGood ==
    (dpc = "stopped")
    => /\ ~sockfile
       /\ ~Reachable
       /\ ExitStatus(dpc) = "0"
       /\ cur = NoProc
       /\ backlog = << >>
       /\ \A p \in Procs : Connected(p) => chan[p].srvClosed

\* the daemon served a connection and was stopped; a client's connect has
\* been refused
C21_Witness ==
    /\ dpc = "stopped"
    /\ accepted # {}
    /\ \E p \in Procs : cpc[p] = "finally" /\ out[p] = ClientError("connect")

TransportErrors == {ClientError("connect"), ClientError("send"), ClientError("recv")}

\* C22: an invocation that printed a transport error (connect refused,
\* send failed, no response) ends with an exit status other than 0.
C22_TransportErrorStatus ==
    [][\A p \in Procs :
          (cpc[p] = "finally" /\ cpc'[p] = "done" /\ out[p] \in TransportErrors)
          => ClientExitStatus(cpc'[p]) \notin {"0", "running"}]_vars

\* what a request for `relay` and `action` leaves in the pins that held h
ExpectedHw(relay, action, h) ==
    IF relay \in RelayNames /\ action \in {"on", "off"}
    THEN [h EXCEPT ![relay] = (action = "on")]
    ELSE IF relay = "all" /\ action = "off"
    THEN [r \in RelayNames |-> FALSE]
    ELSE h

\* the response to it
ExpectedResult(relay, action, h) ==
    LET after == ExpectedHw(relay, action, h)
    IN  CASE relay = "all"        -> MapResp([r \in RelayNames |-> translate_state(after[r])])
          [] relay \in RelayNames -> StatusResp(relay, translate_state(after[relay]))
          [] relay = Unhashable   -> ErrorResp("TypeError")
          [] OTHER                -> ErrorResp("Invalid relay name")

\* C23: the response to a request and the pins it leaves are a function of
\* its relay, its action and the pins before it; the username it carries,
\* or its absence, changes neither.
C23_UsernameIgnored ==
    (dpc = "responding" /\ request.kind = "object")
    => /\ result = ExpectedResult(request.relay, request.action, hw0)
       /\ hw = ExpectedHw(request.relay, request.action, hw0)

\* a request carrying the username refused by the variant was carried out
C23_Witness ==
    /\ dpc = "responding"
    /\ request.username = "mallory"
    /\ request.relay \in RelayNames /\ request.action = "on"
    /\ result = StatusResp(request.relay, "on")
    /\ ~hw0[request.relay]

\* C24: when every pin read raises on its first attempt and would return
\* on a later one within the budget of a retry, no command of the client
\* is answered with an error response.
C24_ReadsRetried ==
    (dpc = "responding" /\ request.relay \in ClientRelays)
    => result.kind # "error"

\* C25: when the daemon has been stopped, every accepted connection that
\* carried a request and is still open on the peer's side has got its
\* response: a request in progress at the signal was completed and answered.
C25_StopFinishesRequest ==
    (dpc = "stopped")
    => \A p \in accepted : chan[p].sent => chan[p].nresp = 1

\* C26: a pin write has the full budget of attempts however many pin
\* writes of the request came before it: when every pin write raises on
\* its first attempt and returns within the budget, a request that writes
\* makes all its writes and is answered without an error.
C26_OwnBudget ==
    /\ \A o \in Outcomes : retry(o, WriteBudget(nwr)) = retry(o, Attempts)
    /\ (dpc = "responding" /\ NeedsWrite(request))
       => /\ fault = "none"
          /\ result.kind # "error"
          /\ nwr = IF request.relay = "all" THEN N ELSE 1

\* all+off went through although each of its writes used up attempts
C26_Witness ==
    /\ dpc = "responding"
    /\ request.relay = "all" /\ request.action = "off"
    /\ N > 1
    /\ nwr = N
    /\ result = MapResp(AllOff)

\* C27: the status in the response to a single-relay request is the
\* translation of the value the pin holds when it is read, also when that
\* is not the value the request wrote.
C27_ReportsPin ==
    (dpc = "responding" /\ request.relay \in RelayNames)
    => result = StatusResp(request.relay, translate_state(hw[request.relay]))

\* a relay asked to be on is reported off
C27_Witness ==
    /\ dpc = "responding"
    /\ request.relay \in RelayNames /\ request.action = "on"
    /\ nwr = 1
    /\ result.status = "off"

\* C28: a status request, for one relay or for all, writes no pin and
\* leaves every pin as it was when the connection was accepted.
C28_StatusReadsOnly ==
    (request.kind = "object" /\ request.action = "status" /\ request.relay \in ClientRelays)
    => /\ nwr = 0
       /\ hw = hw0
       /\ (dpc = "responding" /\ fault = "none")
          => nrd = IF request.relay = "all" THEN N ELSE 1

\* all+status was answered while a relay is on
C28_Witness ==
    /\ dpc = "responding"
    /\ request.relay = "all" /\ request.action = "status"
    /\ nrd = N
    /\ result.kind = "mapping"
    /\ \E r \in RelayNames : hw[r]

\* C29: retry(operation, attempts = n) invokes the operation at most n
\* times; it returns at the first invocation that returns; when all n
\* raise, it raises after the n-th.
C29_RetryContract ==
    (ret # NoRet)
    => LET returning == {k \in 1..call.attempts : call.outcomes[k]}
       IN  /\ ret.calls \in 1..call.attempts
           /\ ret.ok <=> returning # {}
           /\ ret.ok => /\ ret.calls \in returning
                        /\ \A k \in returning : ret.calls <= k
           /\ ~ret.ok => ret.calls = call.attempts

\* a call that returned at its second invocation with one to spare, the
\* third being one that would raise
C29_Witness ==
    /\ ret # NoRet
    /\ call.attempts = 3
    /\ ~call.outcomes[1] /\ call.outcomes[2] /\ ~call.outcomes[3]
    /\ ret.ok /\ ret.calls = 2

\* C30: the lock is held only by a client between flock(LOCK_EX) and the
\* end of its `with` block: an invocation that has ended, however it ended,
\* does not hold it.
C30_LockReleased ==
    \A p \in Procs : lock = p => InExchange(p)

\* an invocation whose connect was refused has ended and another client
\* holds the lock
C30_Witness ==
    \E p \in Procs, q \in Procs :
        /\ p # q
        /\ cpc[p] = "done"
        /\ chan[p].peerClosed /\ ~chan[p].srvClosed
        /\ p \notin accepted /\ backlog = << >>
        /\ lock = q

\* C32: no pin is configured as output more than once, and once the daemon
\* has taken a connection every pin has been configured exactly once:
\* serving requests never sets a direction.
C32_ConfiguredOnce ==
    /\ \A r \in RelayNames : dircnt[r] <= 1
    /\ (accepted # {}) => \A r \in RelayNames : dircnt[r] = 1
    /\ (dpc = "setup_pins")
          => \A i \in 1..N : dircnt[Registry[i].name] = IF i < didx THEN 1 ELSE 0

\* a request that wrote a pin is being answered
C32_Witness ==
    /\ dpc = "responding"
    /\ nwr >= 1 /\ nrd >= 1
    /\ \A r \in RelayNames : dircnt[r] = 1

\* C33 (state part): a daemon that listens and has not taken a connection
\* yet is in the one state Serving, whatever was at the socket path before.
C33_SameListening ==
    (dpc = "listening" /\ accepted = {} /\ backlog = << >>
        /\ \A p \in Procs : cpc[p] = "init")
    => Serving

\* C33 (step part): the bind step succeeds and leaves the socket file in
\* place, also when a file was there.
C33_BindOverStale ==
    (dpc = "bind" /\ dpc' # "stopped") => (dpc' = "listening" /\ sockfile')

\* C33: startup removes a socket file left by a previous run and binds,
\* reaching the same listening state as a start without such a file.
C33_StaleRemoved == []C33_SameListening /\ [][C33_BindOverStale]_vars

\* every pin is configured and the daemon comes to bind while a socket
\* file of a previous run exists
C33_Witness ==
    /\ dpc = "bind"
    /\ sockfile
    /\ \A r \in RelayNames : dircnt[r] = 1

\* C36: when a write of all+off has raised through its retries, the
\* response is an error and nothing else, every relay before the failing
\* one in registry order is off, and the failing one and every later one
\* hold what they held when the request came.
C36_StopsAtFailure ==
    (dpc = "responding" /\ request.relay = "all" /\ request.action = "off"
        /\ fault = "write")
    => /\ result = ErrorResp(WriteFailed)
       /\ Keys(result) = {"error"}
       /\ nwr \in 1..N
       /\ \A i \in 1..N :
             hw[Registry[i].name] = IF i < nwr THEN FALSE ELSE hw0[Registry[i].name]

\* the second write failed: the first relay was on and is off, the second
\* is still on
C36_Witness ==
    /\ dpc = "responding"
    /\ request.relay = "all" /\ request.action = "off"
    /\ fault = "write"
    /\ nwr = 2
    /\ hw0[Registry[1].name] /\ ~hw[Registry[1].name]
    /\ hw[Registry[2].name]

\* indices dense 0..N-1 and pins distinct (names are distinct as keys)
ValidConfig(cfg) ==
    /\ {cfg[r].index : r \in RelayNames} = 0..(N - 1)
    /\ \A r1 \in RelayNames, r2 \in RelayNames :
          (r1 # r2) => (cfg[r1].index # cfg[r2].index /\ cfg[r1].pin # cfg[r2].pin)

C34_NoUnboundedBlock ==
    /\ (dpc = "reading") ~> (dpc = "listening")
    /\ \A p \in Procs : (cpc[p] = "sent") ~> (cpc[p] = "finally")

Rank(pc) ==
    CASE pc = "init"      -> 0
      [] pc = "lockwait"  -> 1
      [] pc = "locked"    -> 2
      [] pc = "connected" -> 3
      [] pc = "sent"      -> 4
      [] pc = "finally"   -> 5
      [] OTHER            -> 6

\* C35 (step): a client only moves forward through its script; a step in
\* which it prints or queues a connection while at connect takes it past
\* connect, and it writes its request only in the step that takes it from
\* connected to sent.
C35_Forward ==
    \A p \in Procs :
        /\ (cpc'[p] # cpc[p]) => Rank(cpc'[p]) > Rank(cpc[p])
        /\ (cpc[p] = "locked" /\ (out'[p] # out[p] \/ Len(backlog') > Len(backlog)))
              => cpc'[p] \in {"connected", "finally"}
        /\ (~chan[p].sent /\ chan'[p].sent)
              => (cpc[p] = "connected" /\ cpc'[p] = "sent")

\* C35: a client invocation makes at most one connect attempt and sends at
\* most one request, however the exchange ends.
C35_NoRetry == [][C35_Forward]_vars

\* the daemon was stopped and an invocation whose connect was refused has
\* ended
C35_Witness ==
    /\ dpc = "stopped"
    /\ \E p \in Procs :
          /\ cpc[p] = "done"
          /\ p \notin accepted
          /\ chan[p].peerClosed /\ ~chan[p].srvClosed

\* C37: a daemon process that listens owns what is at the socket path: a
\* connect to the path reaches it.
C37_ListeningReachable ==
    \A d \in Daemons : (inst.pc[d] = "listening") => (inst.path = d)

\* C38: when an on or off request has been carried out and the peer is
\* gone before the response is sent, the step that fails to send leaves
\* the relay as written, delivers nothing, and takes the daemon back to
\* accept.
C38_Undelivered ==
    (dpc = "responding" /\ chan[cur].peerClosed /\ WritesOne(request)
        /\ dpc' # dpc)
    => /\ dpc' = "listening"
       /\ hw' = hw
       /\ hw[request.relay] = WriteValue(request)
       /\ result = StatusResp(request.relay, request.action)
       /\ chan'[cur].nresp = 0 /\ chan'[cur].resp = NoResp

C38_KeptWhenUndelivered == [][C38_Undelivered]_vars

\* a relay that was off has been switched on for a peer that is gone
C38_Witness ==
    /\ dpc = "responding"
    /\ chan[cur].peerClosed
    /\ request.relay \in RelayNames /\ request.action = "on"
    /\ ~hw0[request.relay] /\ hw[request.relay]

\* C39: every client invocation that waits for the lock comes to its end.
C39_ClientsTerminate ==
    \A p \in Procs : (cpc[p] = "lockwait") ~> (cpc[p] = "done")

Led(v) ==
    CASE v = "valve1" -> "VALVELED1"
      [] v = "valve2" -> "VALVELED2"
      [] OTHER        -> "VALVELED3"
Valve(v) ==
    CASE v = "valve1" -> "VALVE1"
      [] v = "valve2" -> "VALVE2"
      [] OTHER        -> "VALVE3"

\* C40: after every run of power-control.py, starting from all outputs
\* low, at most one valve output is high and the LED output of each valve
\* has the level of its valve.
C40_OneValve ==
    (gpio.pc = 0)
    => /\ \A v1 \in Valves, v2 \in Valves :
             (gpio.out[Valve(v1)] /\ gpio.out[Valve(v2)]) => v1 = v2
       /\ \A v \in Valves : gpio.out[Led(v)] = gpio.out[Valve(v)]

\* valve2 was turned on after valve1 had been turned on
C40_Witness ==
    /\ gpio.pc = 0
    /\ gpio.prev = Args("valve1", "on")
    /\ gpio.argv = Args("valve2", "on")
    /\ gpio.out["VALVE2"] /\ ~gpio.out["VALVE1"]

====
